---- MODULE Spec2Model ----
(***************************************************************************)
(* SolarViewer, src/visualize_amateru.py: the star map pipeline            *)
(*   main -> get_stars_near_amateru -> calculate_distances ->              *)
(*   project_to_2d -> resolve_overlaps -> render_map.                      *)
(*                                                                         *)
(* Rows of the stars table are Python tuples and are modelled as TLA+      *)
(* tuples of the same shape.  Python's 0-based list indices are 1-based    *)
(* here.  Star coordinates are integers (light-years).                     *)
(***************************************************************************)
EXTENDS Integers, Sequences, FiniteSets, TLC

VARIABLES
    stars,          \* the stars table of the catalog: a set of 9-column rows
    pc,             \* position of main / get_stars_near_amateru
    result,         \* get_stars_near_amateru: the row fetched by the lookup
    amateru,        \* (id, name, ax, ay, az) of the reference star, or None
    all_stars,      \* get_stars_near_amateru: the rows of the ORDER BY query
    nearby_stars,   \* the selected rows, reference first
    k,              \* get_stars_near_amateru: index of the loop over all_stars
    log,            \* queries and pipeline stages executed so far, in order
    outcome         \* "running", or how the run ended

VARIABLES
    distances,          \* main: pair (i, j), i < j |-> squared 3D distance
    pixel_positions,    \* main: the pixel position of each selected star
    rpc,                \* position of resolve_overlaps
    positions,          \* resolve_overlaps: the working list
    iteration,          \* resolve_overlaps: passes started so far
    moved,              \* resolve_overlaps: the flag of the last pass
    zero_seen,          \* the last pass examined a pair with dist == 0
    resolved,           \* the list resolve_overlaps returned
    lines,              \* render_map: the draw.line calls, in order
    markers,            \* render_map: the star circles drawn, in order
    labels,             \* render_map: the name labels drawn, in order
    stars_reported,         \* line 280: "Stars rendered: ..."
    connections_reported    \* line 281: "Connections drawn: ..."

selvars == <<stars, result, all_stars, k>>
mainvars == <<pc, amateru, nearby_stars, log, outcome>>
stagevars == <<distances, pixel_positions>>
resvars == <<rpc, positions, iteration, moved, zero_seen, resolved>>
rendervars == <<lines, markers, labels, stars_reported, connections_reported>>

vars == <<selvars, mainvars, stagevars, resvars, rendervars>>

(***************************************************************************)
(* Bounds of the model.                                                    *)
(***************************************************************************)
MaxStars == 3       \* rows in the catalog

(***************************************************************************)
(* Configuration (lines 12-22).                                            *)
(***************************************************************************)
REGION_RADIUS_LY == 20

None == <<>>

\* Column accessors of a row (id, name, x, y, z, spectral, radius_solar,
\* mass_solar, luminosity_solar).
Id(star) == star[1]
Name(star) == star[2]

\* The names of the model, in SQLite's BINARY collation order (byte order:
\* upper case sorts before lower case).
NameOrder == <<"Amateru", "Vega", "amateru">>

NameRank(n) == CHOOSE r \in 1..Len(NameOrder) : NameOrder[r] = n

\* SQL LOWER(name).
LOWER(n) == CASE n = "Amateru" -> "amateru"
              [] n = "Vega" -> "vega"
              [] OTHER -> n

\* Positions of catalog stars.  With a reference at the origin they give a
\* star at distance 5, two at exactly 20 ((20,0,0) and (12,16,0)), and one
\* just outside ((12,16,1): sqrt(401)).
CatalogPositions ==
    { <<0, 0, 0>>, <<5, 0, 0>>, <<20, 0, 0>>, <<12, 16, 0>>, <<12, 16, 1>> }

\* A row of the stars table.  Luminosity is <<v>> for a value v and None
\* for SQL NULL.
Row(id, name, p, lum) == <<id, name, p[1], p[2], p[3], "G2V", 1, 1, lum>>

\* The squared 3D distance; math.sqrt of it is the distance of lines 75, 104.
Dist2(x1, y1, z1, x2, y2, z2) ==
    (x2 - x1) * (x2 - x1) + (y2 - y1) * (y2 - y1) + (z2 - z1) * (z2 - z1)

\* math.sqrt(d2) <= limit, for an integer d2 and an integer limit: sqrt is
\* monotone and exact on perfect squares.
SqrtLeq(d2, limit) == d2 <= limit * limit

\* A strict comparison in place of line 76's.
WithinRegionStrict(d2) == d2 < REGION_RADIUS_LY * REGION_RADIUS_LY

\* line 76: dist <= REGION_RADIUS_LY
WithinRegion(d2) == SqrtLeq(d2, REGION_RADIUS_LY)

\* The loop without the skip of lines 71-72.
IsAmateruNever(star, amateru_id) == FALSE

\* line 71: star_id == amateru_id
IsAmateru(star, amateru_id) == Id(star) = amateru_id

\* lines 30-34: SELECT id, name, x, y, z, spectral ... WHERE name = 'Amateru'
SixColumns(star) == <<star[1], star[2], star[3], star[4], star[5], star[6]>>

ExactMatches == { s \in stars : Name(s) = "Amateru" }

\* lines 38-43: ... WHERE LOWER(name) = 'amateru'
LowerMatches == { s \in stars : LOWER(Name(s)) = "amateru" }

\* lines 60-64: every ordering of the table that ORDER BY name allows (rows
\* of equal name come in an order SQLite does not fix).
OrderedByName ==
    { q \in [1..Cardinality(stars) -> stars] :
        /\ \A a, b \in 1..Cardinality(stars) : a # b => q[a] # q[b]
        /\ \A a, b \in 1..Cardinality(stars) :
              a < b => NameRank(Name(q[a])) <= NameRank(Name(q[b])) }

\* line 83: _, name, x, y, z, spec, _, _, _ = star
Unpacks9(star) == Len(star) = 9

\* line 82: nearby_stars[:10]
FirstTen(s) == SubSeq(s, 1, IF Len(s) < 10 THEN Len(s) ELSE 10)

\* main without the return of lines 291-292.
NotAmateruNever(a) == FALSE

\* line 291: if not amateru
NotAmateru(a) == a = None

\* The later stages before main reaches them.
StagesIdle ==
    /\ distances = <<>>
    /\ pixel_positions = <<>>
    /\ rpc = "idle"
    /\ positions = <<>>
    /\ iteration = 0
    /\ moved = FALSE
    /\ zero_seen = FALSE
    /\ resolved = <<>>
    /\ lines = <<>>
    /\ markers = <<>>
    /\ labels = <<>>
    /\ stars_reported = 0
    /\ connections_reported = 0

(***************************************************************************)
(* Initial states: a catalog of at most MaxStars rows with ids 1..n.       *)
(***************************************************************************)
Init ==
    /\ \E n \in 0..MaxStars :
         \E names \in [1..n -> {NameOrder[r] : r \in 1..Len(NameOrder)}] :
           \E ps \in [1..n -> CatalogPositions] :
             stars = { Row(i, names[i], ps[i], <<1>>) : i \in 1..n }
    /\ pc = "lookup_exact"
    /\ result = None
    /\ amateru = None
    /\ all_stars = <<>>
    /\ nearby_stars = <<>>
    /\ k = 0
    /\ log = <<>>
    /\ outcome = "running"
    /\ StagesIdle

(***************************************************************************)
(* get_stars_near_amateru, called by main (line 290).                      *)
(***************************************************************************)
\* lines 30-36: the exact lookup, LIMIT 1
LookupExact ==
    /\ pc = "lookup_exact"
    /\ IF ExactMatches = {}
         THEN result' = None
         ELSE \E s \in ExactMatches : result' = SixColumns(s)
    /\ log' = Append(log, "lookup_exact")
    /\ pc' = IF result' = None THEN "lookup_lower" ELSE "fetch_all"
    /\ UNCHANGED <<stars, amateru, all_stars, nearby_stars, k, outcome>>
    /\ UNCHANGED <<stagevars, resvars, rendervars>>

\* lines 36-46: the case-insensitive lookup, LIMIT 1
LookupLower ==
    /\ pc = "lookup_lower"
    /\ IF LowerMatches = {}
         THEN result' = None
         ELSE \E s \in LowerMatches : result' = SixColumns(s)
    /\ log' = Append(log, "lookup_lower")
    /\ pc' = IF result' = None THEN "not_found" ELSE "fetch_all"
    /\ UNCHANGED <<stars, amateru, all_stars, nearby_stars, k, outcome>>
    /\ UNCHANGED <<stagevars, resvars, rendervars>>

\* lines 46-53: print the error and a listing of names, return (None, [])
ReportNotFound ==
    /\ pc = "not_found"
    /\ log' = Append(log, "list_names")
    /\ outcome' = "ReferenceNotFound"
    /\ amateru' = None
    /\ nearby_stars' = <<>>
    /\ pc' = "main_check"
    /\ UNCHANGED <<stars, result, all_stars, k>>
    /\ UNCHANGED <<stagevars, resvars, rendervars>>

\* lines 55-67: unpack the reference, fetch all rows, start the list with it
FetchAll ==
    /\ pc = "fetch_all"
    /\ amateru' = <<result[1], result[2], result[3], result[4], result[5]>>
    /\ \E q \in OrderedByName : all_stars' = q
    /\ nearby_stars' = <<result>>
    /\ k' = 1
    /\ log' = Append(log, "fetch_all")
    /\ pc' = "select"
    /\ UNCHANGED <<stars, result, outcome>>
    /\ UNCHANGED <<stagevars, resvars, rendervars>>

\* lines 69-77: one iteration of the loop over all_stars
SelectStar ==
    /\ pc = "select"
    /\ k <= Len(all_stars)
    /\ LET star == all_stars[k]
           dist2 == Dist2(amateru[3], amateru[4], amateru[5],
                          star[3], star[4], star[5])
       IN  nearby_stars' =
             IF IsAmateru(star, amateru[1]) THEN nearby_stars
             ELSE IF WithinRegion(dist2) THEN Append(nearby_stars, star)
             ELSE nearby_stars
    /\ k' = k + 1
    /\ UNCHANGED <<stars, pc, result, amateru, all_stars, log, outcome>>
    /\ UNCHANGED <<stagevars, resvars, rendervars>>

\* line 69 exhausted, line 79
SelectDone ==
    /\ pc = "select"
    /\ k > Len(all_stars)
    /\ pc' = "summary"
    /\ UNCHANGED <<stars, result, amateru, all_stars, nearby_stars, k, log, outcome>>
    /\ UNCHANGED <<stagevars, resvars, rendervars>>

\* lines 81-89: the summary unpacks each of the first ten rows into nine
\* names; a row of another length raises ValueError, which nothing catches.
PrintSummary ==
    /\ pc = "summary"
    /\ IF \A n \in 1..Len(FirstTen(nearby_stars)) : Unpacks9(nearby_stars[n])
         THEN /\ pc' = "main_check"
              /\ outcome' = outcome
         ELSE /\ pc' = "crashed"
              /\ outcome' = "ValueError"
    /\ UNCHANGED <<stars, result, amateru, all_stars, nearby_stars, k, log>>
    /\ UNCHANGED <<stagevars, resvars, rendervars>>

(***************************************************************************)
(* main                                                                    *)
(***************************************************************************)
\* lines 290-292
MainCheck ==
    /\ pc = "main_check"
    /\ pc' = IF NotAmateru(amateru) THEN "done" ELSE "calculate_distances"
    /\ UNCHANGED <<stars, result, amateru, all_stars, nearby_stars, k, log, outcome>>
    /\ UNCHANGED <<stagevars, resvars, rendervars>>

Next ==
    \/ LookupExact
    \/ LookupLower
    \/ ReportNotFound
    \/ FetchAll
    \/ SelectStar
    \/ SelectDone
    \/ PrintSummary
    \/ MainCheck

Spec == Init /\ [][Next]_vars

(***************************************************************************)
(* Pixel arithmetic.  The code computes pixel coordinates in binary        *)
(* floating point; here a coordinate is an integer number of 1/Unit        *)
(* pixels and every quotient is rounded to the nearest such number, as a   *)
(* float operation rounds to the nearest float.                            *)
(***************************************************************************)
FracBits == 1       \* binary digits kept after the point

Unit == 2 ^ FracBits

Abs(a) == IF a >= 0 THEN a ELSE -a

\* a / b rounded to the nearest integer, b > 0
RoundDiv(a, b) ==
    IF a >= 0 THEN (2 * a + b) \div (2 * b)
    ELSE -((2 * (-a) + b) \div (2 * b))

\* Operator arguments are evaluated where they are used; binding a value
\* with "x \in {e}" evaluates e once.
RECURSIVE SqrtBetween(_, _, _)
SqrtBetween(n, lo, hi) ==
    IF lo >= hi THEN lo
    ELSE CHOOSE r \in { IF mid * mid <= n THEN SqrtBetween(n, mid, hi)
                        ELSE SqrtBetween(n, lo, mid - 1) :
                        mid \in {(lo + hi + 1) \div 2} } : TRUE

\* math.sqrt(dx**2 + dy**2) of line 171, in 1/Unit pixels, rounded down:
\* it is 0 exactly when dx = dy = 0, and below an integer bound exactly
\* when the real root is.
Hypot(dx, dy) ==
    CHOOSE r \in { SqrtBetween(n, 0, 46340) : n \in {dx * dx + dy * dy} } : TRUE

(***************************************************************************)
(* resolve_overlaps (lines 156-189)                                        *)
(***************************************************************************)
max_iterations == 50
min_distance == 150

\* The quotients dx / dist, dy / dist of lines 176-177 are kept to 1/1024.
NormScale == 2 ^ 10

\* The guard of line 173 without "and dist > 0".
NeedsPushUnguarded(dist) == dist < min_distance * Unit

\* line 173: dist < min_distance and dist > 0
NeedsPush(dist) == dist < min_distance * Unit /\ dist > 0

\* lines 169-184 for one pair (i, j) of the pass: st is the state of the
\* pass, [positions, moved, fault, zero_seen].  fault records that dx / dist
\* was evaluated with dist = 0 (ZeroDivisionError, which ends the call).
PushPair(st, i, j) ==
    LET pos == st.positions
        dx == pos[j][1] - pos[i][1]
        dy == pos[j][2] - pos[i][2]
        dist == Hypot(dx, dy)
    IN  IF st.fault THEN st
        ELSE IF NeedsPush(dist)
          THEN IF dist = 0
                 THEN [st EXCEPT !.fault = TRUE]
                 ELSE LET force == RoundDiv(min_distance * Unit - dist, 2)
                          norm_x == RoundDiv(dx * NormScale, dist)
                          norm_y == RoundDiv(dy * NormScale, dist)
                          sx == RoundDiv(norm_x * force, NormScale)
                          sy == RoundDiv(norm_y * force, NormScale)
                      IN  [st EXCEPT
                             !.positions =
                                [pos EXCEPT ![i] = <<pos[i][1] - sx, pos[i][2] - sy>>,
                                            ![j] = <<pos[j][1] + sx, pos[j][2] + sy>>],
                             !.moved = TRUE]
          ELSE [st EXCEPT !.zero_seen = st.zero_seen \/ dist = 0]

\* line 168: the inner loop of row i, from j on
RECURSIVE RunRow(_, _, _)
RunRow(st0, i, j) ==
    CHOOSE r \in { IF j > Len(st.positions) THEN st
                   ELSE RunRow(PushPair(st, i, j), i, j + 1) :
                   st \in {st0} } : TRUE

\* line 167: the outer loop, from row i on
RECURSIVE RunPass(_, _)
RunPass(st0, i) ==
    CHOOSE r \in { IF i > Len(st.positions) THEN st
                   ELSE RunPass(RunRow(st, i, i + 1), i + 1) :
                   st \in {st0} } : TRUE

\* lines 165-184: one pass over the working list
Pass(pos) ==
    RunPass([positions |-> pos, moved |-> FALSE, fault |-> FALSE,
             zero_seen |-> FALSE], 1)

\* The loop without the break of lines 186-187.
BreaksNever(m) == FALSE

\* lines 186-187: if not moved: break
Breaks(m) == ~m

\* line 164: range(max_iterations) is exhausted
Exhausted(n) == n >= max_iterations

\* lines 161-163
ResolveStart ==
    /\ rpc = "start"
    /\ positions' = pixel_positions
    /\ iteration' = 0
    /\ moved' = FALSE
    /\ zero_seen' = FALSE
    /\ rpc' = "loop"
    /\ UNCHANGED <<selvars, mainvars, stagevars, resolved, rendervars>>

\* lines 164-187: one iteration of the for loop
ResolvePass ==
    /\ rpc = "loop"
    /\ \E st \in {Pass(positions)} :
           /\ positions' = st.positions
           /\ moved' = st.moved
           /\ zero_seen' = st.zero_seen
           /\ iteration' = iteration + 1
           /\ rpc' = IF st.fault THEN "raised"
                     ELSE IF Breaks(st.moved) \/ Exhausted(iteration + 1)
                       THEN "return"
                     ELSE "loop"
    /\ UNCHANGED <<selvars, mainvars, stagevars, resolved, rendervars>>

\* line 189
ResolveReturn ==
    /\ rpc = "return"
    /\ resolved' = positions
    /\ rpc' = "done"
    /\ UNCHANGED <<selvars, mainvars, stagevars, positions, iteration, moved,
                   zero_seen, rendervars>>

(***************************************************************************)
(* resolve_overlaps on its own: the position lists it is called with.      *)
(***************************************************************************)
MaxPoints == 10     \* points of a row of equally spaced points
MaxSmall == 3       \* points of a list over SmallGrid

\* n points on a horizontal line, gap pixels apart (gap 0: all coincident).
LineOfPoints(n, gap) == [i \in 1..n |-> <<(2500 + (i - 1) * gap) * Unit, 2500 * Unit>>]

Gaps == {0, 1, 100, 150}

\* (100,0) and (125,0) are pushed onto each other by the pair ((0,0),(100,0)).
SmallGrid ==
    { <<0, 0>>, <<100, 0>>, <<125, 0>>, <<50, 80>>, <<400, 300>> }

ToUnits(ps) == [i \in DOMAIN ps |-> <<ps[i][1] * Unit, ps[i][2] * Unit>>]

InitResolve ==
    /\ \/ \E n \in 0..MaxPoints : \E gap \in Gaps :
            pixel_positions = LineOfPoints(n, gap)
       \/ \E n \in 0..MaxSmall : \E ps \in [1..n -> SmallGrid] :
            pixel_positions = ToUnits(ps)
    /\ rpc = "start"
    /\ positions = <<>>
    /\ iteration = 0
    /\ moved = FALSE
    /\ zero_seen = FALSE
    /\ resolved = <<>>
    /\ stars = {}
    /\ result = None
    /\ all_stars = <<>>
    /\ k = 0
    /\ pc = "resolve_overlaps"
    /\ amateru = None
    /\ nearby_stars = <<>>
    /\ log = <<>>
    /\ outcome = "running"
    /\ distances = <<>>
    /\ lines = <<>>
    /\ markers = <<>>
    /\ labels = <<>>
    /\ stars_reported = 0
    /\ connections_reported = 0

NextResolve ==
    \/ ResolveStart
    \/ ResolvePass
    \/ ResolveReturn

SpecResolve == InitResolve /\ [][NextResolve]_vars

\* The call runs in one thread, so a step that can be taken is taken.
SpecResolveFair == SpecResolve /\ WF_vars(NextResolve)

(***************************************************************************)
(* calculate_distances (lines 91-107)                                      *)
(***************************************************************************)
\* lines 96-99: the keys (i, j), i < j, of the dict
PairSet(n) == { p \in (1..n) \X (1..n) : p[1] < p[2] }

\* The place of key (i, j) in the dict's insertion order (and so in the
\* order of distances.items()): i ascending, then j ascending.
PairRank(p, n) == (p[1] - 1) * n - (p[1] * (p[1] - 1)) \div 2 + (p[2] - p[1])

PairSeq(n) ==
    [m \in 1..((n * (n - 1)) \div 2) |->
        CHOOSE p \in PairSet(n) : PairRank(p, n) = m]

\* lines 101-105.  The dict holds math.sqrt of these values; the model
\* keeps the squares and compares them with squared thresholds.
calculate_distances(a, ss) ==
    [p \in PairSet(Len(ss)) |->
        Dist2(ss[p[1]][3], ss[p[1]][4], ss[p[1]][5],
              ss[p[2]][3], ss[p[2]][4], ss[p[2]][5])]

(***************************************************************************)
(* project_to_2d (lines 109-154)                                           *)
(***************************************************************************)
OUTPUT_WIDTH == 5000
OUTPUT_HEIGHT == 5000
margin == 300

SetMin(S) == CHOOSE m \in S : \A e \in S : m <= e
SetMax(S) == CHOOSE m \in S : \A e \in S : m >= e

\* lines 126-145: the scale as a fraction <<numerator, denominator>>.  The
\* padded range is range * 11 / 10, so available / padded range is
\* (available * 10) / (range * 11); the smaller of the two fractions is
\* found by cross multiplication.
Scale(range_x, range_y) ==
    LET available_width == OUTPUT_WIDTH - 2 * margin
        available_height == OUTPUT_HEIGHT - 2 * margin
    IN  IF range_x > 0 /\ range_y > 0
          THEN IF available_width * range_y <= available_height * range_x
                 THEN <<available_width * 10, range_x * 11>>
                 ELSE <<available_height * 10, range_y * 11>>
          ELSE <<1, 1>>

\* lines 150-151: (pos - center) * scale + OUTPUT / 2, with
\* center = (lo + hi) / 2, in 1/Unit pixels
ToPixel(pos, lo, hi, scale, output) ==
    RoundDiv((2 * pos - lo - hi) * scale[1] * Unit, 2 * scale[2])
      + (output * Unit) \div 2

project_to_2d(ss) ==
    IF ss = <<>> THEN <<>>
    ELSE LET xs == { ss[i][3] : i \in 1..Len(ss) }
             ys == { ss[i][4] : i \in 1..Len(ss) }
             min_x == SetMin(xs)
             max_x == SetMax(xs)
             min_y == SetMin(ys)
             max_y == SetMax(ys)
             scale == Scale(max_x - min_x, max_y - min_y)
         IN  [i \in 1..Len(ss) |->
                <<ToPixel(ss[i][3], min_x, max_x, scale, OUTPUT_WIDTH),
                  ToPixel(ss[i][4], min_y, max_y, scale, OUTPUT_HEIGHT)>>]

(***************************************************************************)
(* render_map (lines 191-281)                                              *)
(***************************************************************************)
CLOSE_DISTANCE_LY == 10
STAR_RADIUS == 80

\* math.sqrt(d2) < limit, for an integer d2 and an integer limit
SqrtLess(d2, limit) == d2 < limit * limit

\* "<=" in place of line 201's "<".
IsCloseInclusive(d2) == d2 <= CLOSE_DISTANCE_LY * CLOSE_DISTANCE_LY

\* line 201: dist_ly < CLOSE_DISTANCE_LY
IsClose(d2) == SqrtLess(d2, CLOSE_DISTANCE_LY)

\* lines 206-211
LineWidth(d2) ==
    IF SqrtLess(d2, 5) THEN 5
    ELSE IF SqrtLess(d2, 8) THEN 4
    ELSE 3

\* lines 200-213: the draw.line calls of the loop over distances.items(),
\* from item m on
RECURSIVE DrawLines(_, _, _, _)
DrawLines(ds, pix, order, m) ==
    IF m > Len(order) THEN <<>>
    ELSE LET p == order[m]
         IN  (IF IsClose(ds[p])
                THEN << [i |-> p[1], j |-> p[2],
                         from |-> pix[p[1]], to |-> pix[p[2]],
                         width |-> LineWidth(ds[p])] >>
                ELSE <<>>)
             \o DrawLines(ds, pix, order, m + 1)

\* The largest r with r^3 <= n.
CubeRoot(n) == CHOOSE r \in 0..1000 : r * r * r <= n /\ (r + 1) * (r + 1) * (r + 1) > n

\* lines 221-222, in hundredths: lum ** (1/3) if lum > 0 else 1.0, capped
\* at 3.0
SizeFactor(lum) ==
    LET size_factor == IF lum > 0 THEN CubeRoot(lum * 1000000) ELSE 100
    IN  IF size_factor < 300 THEN size_factor ELSE 300

\* lines 217, 221: the star cannot be drawn.  Unpacking a row that has not
\* nine columns raises ValueError; comparing a NULL luminosity with 0 raises
\* TypeError.
DrawFault(star) ==
    IF Len(star) # 9 THEN "ValueError"
    ELSE IF star[9] = None THEN "TypeError"
    ELSE "none"

\* lines 217-238: the marker of star i, radius in hundredths of a pixel
Marker(star, i, ax_id) ==
    [index |-> i,
     radius |-> STAR_RADIUS * SizeFactor(star[9][1]),
     highlighted |-> (star[1] = ax_id)]

\* line 281: len([(d for d in distances.values() if d < CLOSE_DISTANCE_LY)]),
\* the length of a list that holds one generator object
ConnectionsReported(ds) ==
    Len(<< { p \in DOMAIN ds : IsClose(ds[p]) } >>)

(***************************************************************************)
(* main, lines 294-307                                                     *)
(***************************************************************************)
\* line 295
CalculateDistances ==
    /\ pc = "calculate_distances"
    /\ distances' = calculate_distances(amateru, nearby_stars)
    /\ log' = Append(log, "calculate_distances")
    /\ pc' = "project_to_2d"
    /\ UNCHANGED <<selvars, amateru, nearby_stars, outcome, pixel_positions,
                   resvars, rendervars>>

\* lines 298-299
ProjectTo2D ==
    /\ pc = "project_to_2d"
    /\ pixel_positions' = project_to_2d(nearby_stars)
    /\ log' = Append(log, "project_to_2d")
    /\ pc' = "resolve_overlaps"
    /\ UNCHANGED <<selvars, amateru, nearby_stars, outcome, distances,
                   resvars, rendervars>>

\* lines 302-303: the call of resolve_overlaps
CallResolve ==
    /\ pc = "resolve_overlaps"
    /\ rpc = "idle"
    /\ rpc' = "start"
    /\ log' = Append(log, "resolve_overlaps")
    /\ pc' = "resolving"
    /\ UNCHANGED <<selvars, amateru, nearby_stars, outcome, stagevars,
                   positions, iteration, moved, zero_seen, resolved, rendervars>>

\* line 303: the assignment of the returned list; lines 306-307, 194-197
CallRender ==
    /\ pc = "resolving"
    /\ rpc = "done"
    /\ pixel_positions' = resolved
    /\ log' = Append(log, "render_map")
    /\ pc' = "draw_lines"
    /\ UNCHANGED <<selvars, amateru, nearby_stars, outcome, distances,
                   resvars, rendervars>>

(***************************************************************************)
(* render_map, called by main (line 307)                                   *)
(***************************************************************************)
\* lines 199-213
DrawConnections ==
    /\ pc = "draw_lines"
    /\ lines' = DrawLines(distances, pixel_positions,
                          PairSeq(Len(nearby_stars)), 1)
    /\ pc' = "draw_stars"
    /\ UNCHANGED <<selvars, amateru, nearby_stars, log, outcome, stagevars,
                   resvars, markers, labels, stars_reported, connections_reported>>

\* lines 215-238: the stars are drawn in order up to the first one that
\* raises; nothing catches the exception.
DrawStars ==
    /\ pc = "draw_stars"
    /\ LET n == Len(nearby_stars)
           bad == { i \in 1..n : DrawFault(nearby_stars[i]) # "none" }
           stop == IF bad = {} THEN n + 1 ELSE SetMin(bad)
       IN  /\ markers' = [i \in 1..(stop - 1) |->
                            Marker(nearby_stars[i], i, amateru[1])]
           /\ IF bad = {}
                THEN /\ pc' = "draw_names"
                     /\ outcome' = outcome
                ELSE /\ pc' = "crashed"
                     /\ outcome' = DrawFault(nearby_stars[stop])
    /\ UNCHANGED <<selvars, amateru, nearby_stars, log, stagevars, resvars,
                   lines, labels, stars_reported, connections_reported>>

\* lines 240-266
DrawNames ==
    /\ pc = "draw_names"
    /\ labels' = [i \in 1..Len(nearby_stars) |->
                    [index |-> i,
                     highlighted |-> (nearby_stars[i][1] = amateru[1])]]
    /\ pc' = "save"
    /\ UNCHANGED <<selvars, amateru, nearby_stars, log, outcome, stagevars,
                   resvars, lines, markers, stars_reported, connections_reported>>

\* lines 268-281
SaveAndReport ==
    /\ pc = "save"
    /\ stars_reported' = Len(nearby_stars)
    /\ connections_reported' = ConnectionsReported(distances)
    /\ outcome' = "rendered"
    /\ pc' = "rendered"
    /\ UNCHANGED <<selvars, amateru, nearby_stars, log, stagevars, resvars,
                   lines, markers, labels>>

(***************************************************************************)
(* main from line 294 on: the stages after the selection, started with a   *)
(* selected set.  The reference row is the 6-column row of the lookup      *)
(* (line 67), or a 9-column row, as a caller of calculate_distances and    *)
(* render_map may pass; every other row has nine columns.                  *)
(***************************************************************************)
MaxSelected == 3    \* rows of the selected set

\* Pairs at distance 4 and 0 (width 5), 5 and sqrt(50) (width 4), 9 (width
\* 3), exactly 10 and above (no line); two stars at one position project
\* onto one pixel, and stars on one axis give the projection a zero range.
StagePositions ==
    { <<0, 0, 0>>, <<5, 0, 0>>, <<0, 5, 0>>, <<10, 0, 0>>, <<0, 9, 0>> }

Luminosities == { None, <<0>>, <<64>> }

InitStages ==
    /\ \E n \in 1..MaxSelected :
         \E ps \in [1..n -> StagePositions] :
           \E lums \in [1..n -> Luminosities] :
             \E six \in BOOLEAN :
               nearby_stars =
                 [i \in 1..n |->
                    IF i = 1
                      THEN IF six
                             THEN SixColumns(Row(1, "Amateru", ps[1], lums[1]))
                             ELSE Row(1, "Amateru", ps[1], lums[1])
                      ELSE Row(i, "Vega", ps[i], lums[i])]
    /\ amateru = <<nearby_stars[1][1], nearby_stars[1][2], nearby_stars[1][3],
                   nearby_stars[1][4], nearby_stars[1][5]>>
    /\ pc = "calculate_distances"
    /\ log = <<"lookup_exact", "fetch_all">>
    /\ outcome = "running"
    /\ stars = {}
    /\ result = None
    /\ all_stars = <<>>
    /\ k = 0
    /\ StagesIdle

NextStages ==
    \/ CalculateDistances
    \/ ProjectTo2D
    \/ CallResolve
    \/ ResolveStart
    \/ ResolvePass
    \/ ResolveReturn
    \/ CallRender
    \/ DrawConnections
    \/ DrawStars
    \/ DrawNames
    \/ SaveAndReport

SpecStages == InitStages /\ [][NextStages]_vars

(***************************************************************************)
(* Claims about resolve_overlaps                                           *)
(***************************************************************************)
\* The pixel distance of points a and b of a list, as line 171 computes it.
PixelDist(ps, a, b) == Hypot(ps[b][1] - ps[a][1], ps[b][2] - ps[a][2])

Separated(ps) ==
    \A a, b \in 1..Len(ps) : a < b => PixelDist(ps, a, b) >= min_distance * Unit

NoCoincident(ps) ==
    \A a, b \in 1..Len(ps) : a < b => PixelDist(ps, a, b) > 0

\* C2: once resolve_overlaps has returned, every pair of the returned list is
\* at least min_distance apart, or the call used all max_iterations passes.
C2_SeparatedOrBudgetUsed ==
    rpc = "done" => (Separated(resolved) \/ iteration = max_iterations)

\* C6: resolve_overlaps terminates; it never starts more than max_iterations
\* passes, and once a pass has moved no pair it does not start another one.
C6_Terminates ==
    /\ [](iteration <= max_iterations)
    /\ []((rpc = "loop" /\ iteration > 0) => moved)
    /\ <>(rpc = "done")

\* The budget case: the call returned after max_iterations passes, the last
\* of which still moved a pair.
C6_Witness == rpc = "done" /\ iteration = max_iterations /\ moved

\* C7: resolve_overlaps never divides by a zero dist: no pass raises, also
\* when it examines a pair of coincident points.
C7_NoZeroDivision == rpc # "raised"

\* Two points that were apart in the input have been pushed onto each other,
\* and the last pass examined that pair and returned normally.
C7_Witness ==
    /\ rpc = "done"
    /\ iteration >= 2
    /\ zero_seen
    /\ NoCoincident(pixel_positions)
    /\ ~NoCoincident(resolved)

(***************************************************************************)
(* Claims about the selection and main                                     *)
(***************************************************************************)
\* The loop of lines 69-77 has run to its end.
SelectionComplete == pc \in {"summary", "crashed"}

\* No row matches the reference name, exactly or in lower case.
NoMatch == \A s \in stars : Name(s) # "Amateru" /\ LOWER(Name(s)) # "amateru"

Selected(s) == \E n \in 1..Len(nearby_stars) : nearby_stars[n] = s

DistToAmateru2(s) == Dist2(amateru[3], amateru[4], amateru[5], s[3], s[4], s[5])

C3_SingleStarMapRendered ==
    (/\ pc \in {"done", "crashed", "rendered"}
     /\ ~NoMatch
     /\ Len(nearby_stars) = 1)
    => /\ pc = "rendered"
       /\ Len(markers) = 1
       /\ markers[1].highlighted
       /\ lines = <<>>
       /\ SubSeq(log, Len(log) - 3, Len(log)) =
            <<"calculate_distances", "project_to_2d", "resolve_overlaps",
              "render_map">>

\* C4: when no row matches the reference name under either lookup, main
\* returns after the two lookups and the listing of names: no later stage
\* runs, no lookup is repeated, and the outcome is ReferenceNotFound.
C4_AbortsBeforeStages ==
    NoMatch =>
        /\ pc \in {"lookup_exact", "lookup_lower", "not_found", "main_check", "done"}
        /\ \A n \in 1..Len(log) :
             log[n] = <<"lookup_exact", "lookup_lower", "list_names">>[n]
        /\ Len(log) <= 3
        /\ pc = "done" => (outcome = "ReferenceNotFound" /\ Len(log) = 3)
        /\ StagesIdle

\* A catalog that has rows, none of them the reference, and main returned.
C4_Witness == pc = "done" /\ stars # {} /\ NoMatch

PlaceInCatalog(s) == CHOOSE m \in 1..Len(all_stars) : all_stars[m] = s

LinesDrawn == pc \in {"draw_stars", "draw_names", "save", "rendered", "crashed"}

\* The squared 3D distance of selected stars a and b, from their rows.
StarDist2(a, b) ==
    Dist2(nearby_stars[a][3], nearby_stars[a][4], nearby_stars[a][5],
          nearby_stars[b][3], nearby_stars[b][4], nearby_stars[b][5])

LinesBetween(a, b) ==
    { m \in 1..Len(lines) : {lines[m].i, lines[m].j} = {a, b} }

\* C8: the lines drawn are exactly one per unordered pair of selected stars
\* whose 3D distance is below CLOSE_DISTANCE_LY, none for any other pair,
\* each between the two stars' pixel positions as the declutter left them.
C8_LineIffClose ==
    LinesDrawn =>
        /\ \A a, b \in 1..Len(nearby_stars) :
             a < b =>
               Cardinality(LinesBetween(a, b)) =
                 IF StarDist2(a, b) < CLOSE_DISTANCE_LY * CLOSE_DISTANCE_LY
                   THEN 1 ELSE 0
        /\ \A m \in 1..Len(lines) :
             /\ <<lines[m].i, lines[m].j>> \in PairSet(Len(nearby_stars))
             /\ lines[m].from = pixel_positions[lines[m].i]
             /\ lines[m].to = pixel_positions[lines[m].j]

\* Three stars whose markers the declutter moved: two pairs are connected,
\* the pair at exactly CLOSE_DISTANCE_LY is not.
C8_Witness ==
    /\ pc = "rendered"
    /\ Len(nearby_stars) = 3
    /\ pixel_positions # project_to_2d(nearby_stars)
    /\ Len(lines) = 2
    /\ \E a, b \in 1..3 :
         a < b /\ StarDist2(a, b) = CLOSE_DISTANCE_LY * CLOSE_DISTANCE_LY

\* render_map is past its loop over the stars, or left it by an exception.
StarsDrawn == pc \in {"draw_names", "save", "rendered", "crashed"}

\* C9: render_map sizes the marker of every selected star without failing:
\* the multiplier is 1.0 for a luminosity that is missing or <= 0, and never
\* above 3.0 (multipliers in hundredths).
C9_EveryMarkerSized ==
    StarsDrawn =>
        /\ pc # "crashed"
        /\ Len(markers) = Len(nearby_stars)
        /\ \A n \in 1..Len(markers) :
             /\ markers[n].radius <= STAR_RADIUS * 300
             /\ (\/ Len(nearby_stars[n]) < 9
                 \/ nearby_stars[n][9] = None
                 \/ nearby_stars[n][9][1] <= 0)
                => markers[n].radius = STAR_RADIUS * 100

\* C10: the count render_map reports as "Connections drawn" is the number
\* of lines it drew.
C10_ReportedCountIsLinesDrawn ==
    pc = "rendered" => connections_reported = Len(lines)

====
